---- MODULE Spec2Model ----
(***************************************************************************)
(* Model of server.js: the in-memory store (database), the request         *)
(* handlers registered in `routes`, and the vote engine upvote/downvote.   *)
(*                                                                         *)
(* Object references are represented by the id of the object: a comment    *)
(* object is identified by its id (ids are never reused), so the array     *)
(* `article.comments` built by getArticle is a sequence of references      *)
(* Ref(id) or Null.  JavaScript `null` and `undefined` are the records     *)
(* Null and Undefined.  An uncaught TypeError ends the node process: the   *)
(* state keeps the writes made before the throw and `crashed` becomes TRUE.*)
(***************************************************************************)
EXTENDS Integers, Sequences, FiniteSets, TLC

\* ---- bounds of the model ----
MaxArticles == 2
MaxComments == 2
MaxVoteLen == 2
\* number of requests served in one run
MaxRequests == 6
\* number of requests served in one run that records each request
MaxRecorded == 4
\* number of requests sent to one process
MaxArrivals == 3

\* ---- input domains ----
\* usernames that requests may create
Names == {"alice", "bob"}
\* a property name every JavaScript object inherits from Object.prototype
ObjectPrototypeKeys == {"constructor"}
\* usernames a request may carry; "" stands for a missing or empty username
RequestUsernames == Names \cup ObjectPrototypeKeys \cup {""}
\* texts a create request may carry; "" stands for a missing or empty field
CreateTexts == {"", "a"}
\* texts an update request may carry
PatchTexts == {"", "b"}

VARIABLES users, articles, nextArticleId, comments, nextCommentId,
          response, served, crashed, item, vlog, request,
          phase, isTestMode, disk, writes, bodies, order

store == <<users, articles, nextArticleId, comments, nextCommentId>>
votevars == <<item, vlog>>
\* the process around the handlers: start-up, database.yml and the writes
\* to it, the requests whose body has not ended, the order handlers ran in
process == <<phase, isTestMode, disk, writes, bodies, order>>
\* what the other specifications than Spec record
aux == <<item, vlog, request, process>>
vars == <<users, articles, nextArticleId, comments, nextCommentId,
          response, served, crashed, item, vlog, request,
          phase, isTestMode, disk, writes, bodies, order>>

\* ---- JavaScript values ----
Null == [null |-> TRUE]
Undefined == [undefined |-> TRUE]
\* the value of database.users[k] for an inherited key k (Object.prototype[k])
Inherited(k) == [inherited |-> k]
Ref(id) == [ref |-> id]

Range(s) == {s[i] : i \in DOMAIN s}

\* Array.prototype.includes
Includes(arr, x) == \E i \in DOMAIN arr : arr[i] = x

\* Array.prototype.indexOf, 0-based, -1 when absent
IndexOf(arr, x) ==
    IF Includes(arr, x)
    THEN (CHOOSE i \in DOMAIN arr : arr[i] = x /\ \A j \in 1..(i-1) : arr[j] # x) - 1
    ELSE -1

\* a splice that removes nothing
SpliceNothing(arr, start, deleteCount) == arr

\* Array.prototype.splice(start, deleteCount) with no inserted items:
\* a negative start counts from the end of the array
Splice(arr, start, deleteCount) ==
    LET len == Len(arr)
        from == IF start < 0 THEN (IF len + start < 0 THEN 0 ELSE len + start)
                ELSE (IF start > len THEN len ELSE start)
        cnt == IF deleteCount < 0 THEN 0
               ELSE IF deleteCount > len - from THEN len - from ELSE deleteCount
    IN SubSeq(arr, 1, from) \o SubSeq(arr, from + cnt + 1, len)

\* a filter that keeps every element
FilterKeepAll(arr, x) == arr

\* Array.prototype.filter(element => element !== x)
FilterOut(arr, x) == SelectSeq(arr, LAMBDA e : e # x)

\* a counter that is read but not advanced
PostIncrementStuck(n) == n

\* the value a counter holds after `counter++`
PostIncrement(n) == n + 1

\* Array.prototype.push
Push(arr, x) == Append(arr, x)

\* database.users[username]: own property, inherited property, or undefined
UsersGet(us, username) ==
    IF username \in DOMAIN us THEN us[username]
    ELSE IF username \in ObjectPrototypeKeys THEN Inherited(username)
    ELSE Undefined

\* database.articles[id] / database.comments[id]; ids are 1..next-1
SlotGet(slots, id) == IF id \in DOMAIN slots THEN slots[id] ELSE Undefined

\* database.articles[id] = v / database.comments[id] = v
SlotSet(slots, id, v) ==
    IF id \in DOMAIN slots THEN [slots EXCEPT ![id] = v]
    ELSE [i \in 1..id |-> IF i = id THEN v ELSE SlotGet(slots, i)]

Truthy(v) == v # Undefined /\ v # Null

\* an own user record (has articleIds and commentIds)
IsUser(v) == Truthy(v) /\ "commentIds" \in DOMAIN v

\* ---- responses ----
\* a response envelope; the body lists the values it serialises
Resp(status, bodyUsers, bodyArticles, bodyComments) ==
    [status |-> status, users |-> bodyUsers, articles |-> bodyArticles,
     comments |-> bodyComments]

StatusOnly(status) == Resp(status, <<>>, <<>>, <<>>)

\* no envelope: the handler threw
Thrown == StatusOnly(0)

\* ---- vote engine ----
\* an upvote that pushes without looking for the username
upvoteAlwaysPush(it, username) ==
    [it EXCEPT !.downvotedBy = SelectSeq(@, LAMBDA e : e # username),
               !.upvotedBy = Push(@, username)]

upvote(it, username) ==
    LET down == IF Includes(it.downvotedBy, username)
                THEN Splice(it.downvotedBy, IndexOf(it.downvotedBy, username), 1)
                ELSE it.downvotedBy
        up == IF ~Includes(it.upvotedBy, username)
              THEN Push(it.upvotedBy, username)
              ELSE it.upvotedBy
    IN [it EXCEPT !.downvotedBy = down, !.upvotedBy = up]

\* a downvote that leaves the username in upvotedBy
downvoteNoRemove(it, username) ==
    [it EXCEPT !.downvotedBy = IF Includes(@, username) THEN @
                               ELSE Push(@, username)]

downvote(it, username) ==
    LET up == IF Includes(it.upvotedBy, username)
              THEN Splice(it.upvotedBy, IndexOf(it.upvotedBy, username), 1)
              ELSE it.upvotedBy
        down == IF ~Includes(it.downvotedBy, username)
                THEN Push(it.downvotedBy, username)
                ELSE it.downvotedBy
    IN [it EXCEPT !.upvotedBy = up, !.downvotedBy = down]

\* ---- initial state: the database literal ----
NoItem == [upvotedBy |-> <<>>, downvotedBy |-> <<>>]
NoVote == [op |-> "none", username |-> "", before |-> NoItem,
           prevOp |-> "none", prevUsername |-> ""]
NoRequest == [method |-> "", url |-> <<>>, route |-> "", handler |-> ""]
\* no database.yml
NoFile == [file |-> FALSE]

\* a server that listens in test mode: nothing is loaded, nothing is saved
TestMode ==
    /\ phase = "listening"
    /\ isTestMode = TRUE
    /\ disk = NoFile
    /\ writes = <<>>
    /\ bodies = {}
    /\ order = <<>>

Init ==
    /\ users = <<>>
    /\ articles = <<>>
    /\ nextArticleId = 1
    /\ comments = <<>>
    /\ nextCommentId = 1
    /\ served = 0
    /\ response = StatusOnly(0)
    /\ crashed = FALSE
    /\ item = NoItem
    /\ vlog = NoVote
    /\ request = NoRequest
    /\ TestMode

\* ---- handlers ----
\* POST /users
getOrCreateUser(username) ==
    /\ IF Truthy(UsersGet(users, username))
       THEN /\ response' = Resp(200, <<UsersGet(users, username)>>, <<>>, <<>>)
            /\ users' = users
       ELSE IF username # ""
       THEN LET user == [username |-> username, articleIds |-> <<>>,
                         commentIds |-> <<>>]
            IN /\ users' = (username :> user) @@ users
               /\ response' = Resp(201, <<user>>, <<>>, <<>>)
       ELSE /\ response' = StatusOnly(400)
            /\ users' = users
    /\ UNCHANGED <<articles, nextArticleId, comments, nextCommentId, crashed>>

\* POST /articles
createArticle(title, url, username) ==
    LET valid == title # "" /\ url # "" /\ username # ""
                 /\ Truthy(UsersGet(users, username))
        article == [id |-> nextArticleId, title |-> title, url |-> url,
                    username |-> username, commentIds |-> <<>>,
                    upvotedBy |-> <<>>, downvotedBy |-> <<>>]
    IN /\ valid => nextArticleId <= MaxArticles
       /\ IF valid
          THEN /\ nextArticleId' = PostIncrement(nextArticleId)
               /\ articles' = SlotSet(articles, article.id, article)
               /\ IF IsUser(UsersGet(users, username))
                  THEN /\ users' = [users EXCEPT ![username].articleIds =
                                        Push(@, article.id)]
                       /\ response' = Resp(201, <<>>, <<article>>, <<>>)
                       /\ crashed' = FALSE
                  ELSE \* .articleIds is undefined: push throws a TypeError
                       /\ users' = users
                       /\ response' = Thrown
                       /\ crashed' = TRUE
          ELSE /\ response' = StatusOnly(400)
               /\ UNCHANGED <<users, articles, nextArticleId, crashed>>
       /\ UNCHANGED <<comments, nextCommentId>>

\* GET /users/:username
getUser(username) ==
    LET user == UsersGet(users, username)
    IN /\ IF Truthy(user)
          THEN IF IsUser(user)
               THEN LET userArticles == [i \in DOMAIN user.articleIds |->
                                           SlotGet(articles, user.articleIds[i])]
                        userComments == [i \in DOMAIN user.commentIds |->
                                           SlotGet(comments, user.commentIds[i])]
                    IN /\ response' = Resp(200, <<user>>, userArticles, userComments)
                       /\ crashed' = FALSE
               ELSE \* .articleIds is undefined: map throws a TypeError
                    /\ response' = Thrown
                    /\ crashed' = TRUE
          ELSE /\ response' = StatusOnly(IF username # "" THEN 404 ELSE 400)
               /\ crashed' = FALSE
       /\ UNCHANGED store

\* the live articles, newest first
RECURSIVE LiveDescending(_)
LiveDescending(slots) ==
    IF slots = <<>> THEN <<>>
    ELSE LET last == slots[Len(slots)]
             rest == LiveDescending(SubSeq(slots, 1, Len(slots) - 1))
         IN IF Truthy(last) THEN <<last>> \o rest ELSE rest

\* GET /articles
getArticles ==
    /\ response' = Resp(200, <<>>, LiveDescending(articles), <<>>)
    /\ UNCHANGED <<store, crashed>>

\* the value of commentIds.map(commentId => database.comments[commentId])
ResolveComments(commentIds) ==
    [i \in DOMAIN commentIds |->
        IF Truthy(SlotGet(comments, commentIds[i])) THEN Ref(commentIds[i])
        ELSE SlotGet(comments, commentIds[i])]

\* a getArticle that answers 400 for every id it does not find
getArticleMissingIs400(id) ==
    LET article == SlotGet(articles, id)
    IN /\ IF Truthy(article)
          THEN /\ articles' = [articles EXCEPT ![id] =
                       [comments |-> ResolveComments(article.commentIds)] @@ article]
               /\ response' = Resp(200, <<>>, <<articles'[id]>>, <<>>)
          ELSE /\ response' = StatusOnly(400)
               /\ articles' = articles
       /\ UNCHANGED <<users, nextArticleId, comments, nextCommentId, crashed>>

\* GET /articles/:id ; id = 0 stands for an id that resolves falsy
getArticle(id) ==
    LET article == SlotGet(articles, id)
    IN /\ IF Truthy(article)
          THEN /\ articles' = [articles EXCEPT ![id] =
                       [comments |-> ResolveComments(article.commentIds)] @@ article]
               /\ response' = Resp(200, <<>>, <<articles'[id]>>, <<>>)
          ELSE /\ response' = StatusOnly(IF id # 0 THEN 404 ELSE 400)
               /\ articles' = articles
       /\ UNCHANGED <<users, nextArticleId, comments, nextCommentId, crashed>>

\* an updateArticle that stores the title of the request even when empty
updateArticleOverwrite(id, present, title, url) ==
    LET savedArticle == SlotGet(articles, id)
    IN /\ IF id = 0 \/ ~present
          THEN /\ response' = StatusOnly(400)
               /\ articles' = articles
          ELSE IF ~Truthy(savedArticle)
          THEN /\ response' = StatusOnly(404)
               /\ articles' = articles
          ELSE /\ articles' = [articles EXCEPT
                       ![id].title = title,
                       ![id].url = IF url # "" THEN url ELSE @]
               /\ response' = Resp(200, <<>>, <<articles'[id]>>, <<>>)
       /\ UNCHANGED <<users, nextArticleId, comments, nextCommentId, crashed>>

\* PUT /articles/:id ; present says whether the body carries an article
updateArticle(id, present, title, url) ==
    LET savedArticle == SlotGet(articles, id)
    IN /\ IF id = 0 \/ ~present
          THEN /\ response' = StatusOnly(400)
               /\ articles' = articles
          ELSE IF ~Truthy(savedArticle)
          THEN /\ response' = StatusOnly(404)
               /\ articles' = articles
          ELSE /\ articles' = [articles EXCEPT
                       ![id].title = IF title # "" THEN title ELSE @,
                       ![id].url = IF url # "" THEN url ELSE @]
               /\ response' = Resp(200, <<>>, <<articles'[id]>>, <<>>)
       /\ UNCHANGED <<users, nextArticleId, comments, nextCommentId, crashed>>

\* the forEach of deleteArticle over savedArticle.commentIds; id is the
\* article's id
RECURSIVE Cascade(_, _, _, _)
Cascade(us, cms, commentIds, id) ==
    IF commentIds = <<>> THEN [users |-> us, comments |-> cms, threw |-> FALSE]
    ELSE LET commentId == Head(commentIds)
             comment == SlotGet(cms, commentId)
             cms2 == IF commentId \in DOMAIN cms
                     THEN [cms EXCEPT ![commentId] = Null] ELSE cms
         IN IF ~Truthy(comment)
            THEN [users |-> us, comments |-> cms2, threw |-> TRUE]
            ELSE IF ~IsUser(UsersGet(us, comment.username))
            THEN [users |-> us, comments |-> cms2, threw |-> TRUE]
            ELSE Cascade([us EXCEPT ![comment.username].commentIds =
                              Splice(@, IndexOf(@, id), 1)],
                         cms2, Tail(commentIds), id)

\* a deleteArticle that answers 404 for an id it does not find
deleteArticleMissingIs404(id) ==
    LET savedArticle == SlotGet(articles, id)
    IN /\ IF Truthy(savedArticle)
          THEN LET c == Cascade(users, comments, savedArticle.commentIds, id)
               IN /\ articles' = [articles EXCEPT ![id] = Null]
                  /\ comments' = c.comments
                  /\ IF c.threw \/ ~IsUser(UsersGet(c.users, savedArticle.username))
                     THEN /\ users' = c.users
                          /\ response' = Thrown
                          /\ crashed' = TRUE
                     ELSE /\ users' = [c.users EXCEPT
                                  ![savedArticle.username].articleIds =
                                      Splice(@, IndexOf(@, id), 1)]
                          /\ response' = StatusOnly(204)
                          /\ crashed' = FALSE
          ELSE /\ response' = StatusOnly(404)
               /\ UNCHANGED <<users, articles, comments, crashed>>
       /\ UNCHANGED <<nextArticleId, nextCommentId>>

\* DELETE /articles/:id
deleteArticle(id) ==
    LET savedArticle == SlotGet(articles, id)
    IN /\ IF Truthy(savedArticle)
          THEN LET c == Cascade(users, comments, savedArticle.commentIds, id)
               IN /\ articles' = [articles EXCEPT ![id] = Null]
                  /\ comments' = c.comments
                  /\ IF c.threw \/ ~IsUser(UsersGet(c.users, savedArticle.username))
                     THEN /\ users' = c.users
                          /\ response' = Thrown
                          /\ crashed' = TRUE
                     ELSE /\ users' = [c.users EXCEPT
                                  ![savedArticle.username].articleIds =
                                      Splice(@, IndexOf(@, id), 1)]
                          /\ response' = StatusOnly(204)
                          /\ crashed' = FALSE
          ELSE /\ response' = StatusOnly(400)
               /\ UNCHANGED <<users, articles, comments, crashed>>
       /\ UNCHANGED <<nextArticleId, nextCommentId>>

\* PUT /articles/:id/upvote
upvoteArticle(id, username) ==
    LET savedArticle == SlotGet(articles, id)
    IN /\ IF Truthy(savedArticle) /\ Truthy(UsersGet(users, username))
          THEN /\ articles' = [articles EXCEPT ![id] = upvote(savedArticle, username)]
               /\ response' = Resp(200, <<>>, <<articles'[id]>>, <<>>)
          ELSE /\ response' = StatusOnly(400)
               /\ articles' = articles
       /\ UNCHANGED <<users, nextArticleId, comments, nextCommentId, crashed>>

\* PUT /articles/:id/downvote
downvoteArticle(id, username) ==
    LET savedArticle == SlotGet(articles, id)
    IN /\ IF Truthy(savedArticle) /\ Truthy(UsersGet(users, username))
          THEN /\ articles' = [articles EXCEPT ![id] = downvote(savedArticle, username)]
               /\ response' = Resp(200, <<>>, <<articles'[id]>>, <<>>)
          ELSE /\ response' = StatusOnly(400)
               /\ articles' = articles
       /\ UNCHANGED <<users, nextArticleId, comments, nextCommentId, crashed>>

\* POST /comments ; articleId = 0 stands for a missing articleId
createComment(body, username, articleId) ==
    LET valid == body # "" /\ username # ""
                 /\ Truthy(UsersGet(users, username))
                 /\ articleId # 0 /\ Truthy(SlotGet(articles, articleId))
        comment == [id |-> nextCommentId, body |-> body, username |-> username,
                    articleId |-> articleId, upvotedBy |-> <<>>,
                    downvotedBy |-> <<>>]
    IN /\ valid => nextCommentId <= MaxComments
       /\ IF valid
          THEN /\ nextCommentId' = PostIncrement(nextCommentId)
               /\ comments' = SlotSet(comments, comment.id, comment)
               /\ IF IsUser(UsersGet(users, username))
                  THEN /\ users' = [users EXCEPT ![username].commentIds =
                                        Push(@, comment.id)]
                       /\ articles' = [articles EXCEPT ![articleId].commentIds =
                                        Push(@, comment.id)]
                       /\ response' = Resp(201, <<>>, <<>>, <<comment>>)
                       /\ crashed' = FALSE
                  ELSE \* .commentIds is undefined: push throws a TypeError
                       /\ users' = users
                       /\ articles' = articles
                       /\ response' = Thrown
                       /\ crashed' = TRUE
          ELSE /\ response' = StatusOnly(400)
               /\ UNCHANGED <<users, articles, comments, nextCommentId, crashed>>
       /\ nextArticleId' = nextArticleId

\* PUT /comments/:id ; present says whether the body carries a comment
updateComment(id, present, body) ==
    LET savedComment == SlotGet(comments, id)
    IN /\ IF id = 0 \/ ~present
          THEN /\ response' = StatusOnly(400)
               /\ comments' = comments
          ELSE IF ~Truthy(savedComment)
          THEN /\ response' = StatusOnly(404)
               /\ comments' = comments
          ELSE /\ comments' = [comments EXCEPT
                       ![id].body = IF body # "" THEN body ELSE @]
               /\ response' = Resp(200, <<>>, <<>>, <<comments'[id]>>)
       /\ UNCHANGED <<users, articles, nextArticleId, nextCommentId, crashed>>

\* DELETE /comments/:id
deleteComment(id) ==
    LET savedComment == SlotGet(comments, id)
    IN /\ IF Truthy(savedComment)
          THEN LET savedUser == UsersGet(users, savedComment.username)
                   savedArticle == SlotGet(articles, savedComment.articleId)
               IN IF ~IsUser(savedUser)
                  THEN \* savedUser.commentIds is undefined: filter throws
                       /\ response' = Thrown
                       /\ crashed' = TRUE
                       /\ UNCHANGED <<users, articles, comments>>
                  ELSE IF ~Truthy(savedArticle)
                  THEN \* savedArticle is null: reading commentIds throws
                       /\ users' = [users EXCEPT ![savedComment.username].commentIds =
                                        FilterOut(@, id)]
                       /\ response' = Thrown
                       /\ crashed' = TRUE
                       /\ UNCHANGED <<articles, comments>>
                  ELSE /\ users' = [users EXCEPT ![savedComment.username].commentIds =
                                        FilterOut(@, id)]
                       /\ articles' = [articles EXCEPT
                                        ![savedComment.articleId].commentIds =
                                            FilterOut(@, id)]
                       /\ comments' = [comments EXCEPT ![id] = Null]
                       /\ response' = StatusOnly(204)
                       /\ crashed' = FALSE
          ELSE /\ response' = StatusOnly(404)
               /\ UNCHANGED <<users, articles, comments, crashed>>
       /\ UNCHANGED <<nextArticleId, nextCommentId>>

\* PUT /comments/:id/upvote
upvoteComment(id, username) ==
    LET savedComment == SlotGet(comments, id)
    IN /\ IF Truthy(savedComment) /\ Truthy(UsersGet(users, username))
          THEN /\ comments' = [comments EXCEPT ![id] = upvote(savedComment, username)]
               /\ response' = Resp(200, <<>>, <<>>, <<comments'[id]>>)
          ELSE /\ response' = StatusOnly(400)
               /\ comments' = comments
       /\ UNCHANGED <<users, articles, nextArticleId, nextCommentId, crashed>>

\* PUT /comments/:id/downvote
downvoteComment(id, username) ==
    LET savedComment == SlotGet(comments, id)
    IN /\ IF Truthy(savedComment) /\ Truthy(UsersGet(users, username))
          THEN /\ comments' = [comments EXCEPT ![id] = downvote(savedComment, username)]
               /\ response' = Resp(200, <<>>, <<>>, <<comments'[id]>>)
          ELSE /\ response' = StatusOnly(400)
               /\ comments' = comments
       /\ UNCHANGED <<users, articles, nextArticleId, nextCommentId, crashed>>

\* ids a handler may be given: 0 stands for an id that resolves falsy
ArticleIdInputs == 0..(MaxArticles + 1)
CommentIdInputs == 0..(MaxComments + 1)

\* ---- routing ----
\* the route table
routes ==
    ("/users" :> ("POST" :> "getOrCreateUser")) @@
    ("/users/:username" :> ("GET" :> "getUser")) @@
    ("/articles" :> (("GET" :> "getArticles") @@ ("POST" :> "createArticle"))) @@
    ("/articles/:id" :> (("GET" :> "getArticle") @@ ("PUT" :> "updateArticle")
                         @@ ("DELETE" :> "deleteArticle"))) @@
    ("/articles/:id/upvote" :> ("PUT" :> "upvoteArticle")) @@
    ("/articles/:id/downvote" :> ("PUT" :> "downvoteArticle")) @@
    ("/comments" :> ("POST" :> "createComment")) @@
    ("/comments/:id" :> (("PUT" :> "updateComment") @@ ("DELETE" :> "deleteComment"))) @@
    ("/comments/:id/upvote" :> ("PUT" :> "upvoteComment")) @@
    ("/comments/:id/downvote" :> ("PUT" :> "downvoteComment"))

\* a url is the array url.split('/'): the pieces between the slashes
\* url.split('/').filter(segment => segment)
PathSegments(url) == SelectSeq(url, LAMBDA segment : segment # "")

\* `${pathSegments[i]}` with i 0-based: a missing segment prints as undefined
Interpolate(pathSegments, i) ==
    IF i + 1 <= Len(pathSegments) THEN pathSegments[i + 1] ELSE "undefined"

\* a resolver that looks for the users collection before the vote suffix
getRequestRouteUsersFirst(url) ==
    LET pathSegments == PathSegments(url)
    IN IF Len(pathSegments) = 1
       THEN "/" \o Interpolate(pathSegments, 0)
       ELSE IF Len(pathSegments) >= 1 /\ pathSegments[1] = "users"
       THEN "/" \o Interpolate(pathSegments, 0) \o "/:username"
       ELSE IF Len(pathSegments) >= 3 /\ pathSegments[3] \in {"upvote", "downvote"}
       THEN "/" \o Interpolate(pathSegments, 0) \o "/:id/" \o Interpolate(pathSegments, 2)
       ELSE "/" \o Interpolate(pathSegments, 0) \o "/:id"

getRequestRoute(url) ==
    LET pathSegments == PathSegments(url)
    IN IF Len(pathSegments) = 1
       THEN "/" \o Interpolate(pathSegments, 0)
       ELSE IF Len(pathSegments) >= 3 /\ pathSegments[3] \in {"upvote", "downvote"}
       THEN "/" \o Interpolate(pathSegments, 0) \o "/:id/" \o Interpolate(pathSegments, 2)
       ELSE IF Len(pathSegments) >= 1 /\ pathSegments[1] = "users"
       THEN "/" \o Interpolate(pathSegments, 0) \o "/:username"
       ELSE "/" \o Interpolate(pathSegments, 0) \o "/:id"

\* a lookup that takes any handler of the route, whatever the method
HandlerForAnyMethod(route, method) ==
    IF route \notin DOMAIN routes THEN "none"
    ELSE routes[route][CHOOSE m \in DOMAIN routes[route] : TRUE]

\* routes[route][method], "none" when !routes[route] || !routes[route][method]
HandlerFor(route, method) ==
    IF route \notin DOMAIN routes THEN "none"
    ELSE IF method \notin DOMAIN routes[route] THEN "none"
    ELSE routes[route][method]

\* the largest number a path segment of the model spells
MaxDigits == IF MaxArticles > MaxComments THEN MaxArticles + 1 ELSE MaxComments + 1

\* Number(segment); NaN, falsy like 0 and the key of no record, is 0 here
Number(segment) ==
    IF \E n \in 0..MaxDigits : ToString(n) = segment
    THEN CHOOSE n \in 0..MaxDigits : ToString(n) = segment
    ELSE 0

\* Number(url.split('/').filter(segment => segment)[1])
IdOf(url) ==
    IF Len(PathSegments(url)) >= 2 THEN Number(PathSegments(url)[2]) ELSE 0

\* url.split('/').filter(segment => segment)[1]; "" stands for undefined
UsernameOf(url) ==
    IF Len(PathSegments(url)) >= 2 THEN PathSegments(url)[2] ELSE ""

\* ---- request inputs ----
Methods == {"GET", "POST", "PUT", "DELETE", "PATCH", "OPTIONS"}

\* the url "/" followed by the segments joined with "/"
Path(segments) == <<"">> \o segments

ArticleIdSegments == {"abc"} \cup {ToString(n) : n \in ArticleIdInputs}
CommentIdSegments == {"abc"} \cup {ToString(n) : n \in CommentIdInputs}

Urls ==
    {Path(<<>>), Path(<<"users">>), Path(<<"articles">>), Path(<<"comments">>),
     Path(<<"users", "">>), Path(<<"users", "alice", "upvote">>),
     Path(<<"articles", "1", "comments">>),
     Path(<<"articles", "1", "upvote", "again">>)}
    \cup {Path(<<"users", u>>) : u \in Names \cup ObjectPrototypeKeys}
    \cup {Path(<<"articles", s>>) : s \in ArticleIdSegments}
    \cup {Path(<<"comments", s>>) : s \in CommentIdSegments}
    \cup {Path(<<"articles", s, v>>) : s \in ArticleIdSegments, v \in {"upvote", "downvote"}}
    \cup {Path(<<"comments", s, v>>) : s \in CommentIdSegments, v \in {"upvote", "downvote"}}

\* ---- requestHandler ----
\* what requestHandler does with each request (method, url): the OPTIONS
\* short-circuit, or the handler the route table gives ("none": status 400)
HandlerOf ==
    [r \in Methods \X Urls |->
        IF r[1] = "OPTIONS" THEN "options"
        ELSE HandlerFor(getRequestRoute(r[2]), r[1])]

\* getRequestRoute on every url of the model
RouteOf == [url \in Urls |-> getRequestRoute(url)]

\* OPTIONS: the CORS headers and status 200, no route lookup
options ==
    /\ response' = StatusOnly(200)
    /\ UNCHANGED <<store, crashed>>

\* !routes[route] || !routes[route][method]: status 400 and no body
noRoute ==
    /\ response' = StatusOnly(400)
    /\ UNCHANGED <<store, crashed>>

\* one request is handled to completion; nothing runs after an uncaught
\* exception
Dispatch(handler) ==
    /\ ~crashed
    /\ served < MaxRequests
    /\ served' = served + 1
    /\ handler
    /\ UNCHANGED aux

\* the call of one handler of the route table, or one of the two answers
\* requestHandler gives itself, on the arguments read from the url and the body
Run(handler, url) ==
    \/ handler = "options" /\ options
    \/ handler = "none" /\ noRoute
    \/ handler = "getOrCreateUser"
          /\ \E u \in RequestUsernames : getOrCreateUser(u)
    \/ handler = "getUser" /\ getUser(UsernameOf(url))
    \/ handler = "getArticles" /\ getArticles
    \/ handler = "createArticle"
          /\ \E t \in CreateTexts, l \in CreateTexts, u \in RequestUsernames :
                createArticle(t, l, u)
    \/ handler = "getArticle" /\ getArticle(IdOf(url))
    \/ handler = "updateArticle"
          /\ \E p \in BOOLEAN, t \in PatchTexts, l \in PatchTexts :
                updateArticle(IdOf(url), p, t, l)
    \/ handler = "deleteArticle" /\ deleteArticle(IdOf(url))
    \/ handler = "upvoteArticle"
          /\ \E u \in RequestUsernames : upvoteArticle(IdOf(url), u)
    \/ handler = "downvoteArticle"
          /\ \E u \in RequestUsernames : downvoteArticle(IdOf(url), u)
    \/ handler = "createComment"
          /\ \E b \in CreateTexts, u \in RequestUsernames, a \in ArticleIdInputs :
                createComment(b, u, a)
    \/ handler = "updateComment"
          /\ \E p \in BOOLEAN, b \in PatchTexts : updateComment(IdOf(url), p, b)
    \/ handler = "deleteComment" /\ deleteComment(IdOf(url))
    \/ handler = "upvoteComment"
          /\ \E u \in RequestUsernames : upvoteComment(IdOf(url), u)
    \/ handler = "downvoteComment"
          /\ \E u \in RequestUsernames : downvoteComment(IdOf(url), u)

\* what requestHandler does with one request
Request(method, url) == Run(HandlerOf[<<method, url>>], url)

HandlerNames ==
    {"none", "options"} \cup UNION {Range(routes[route]) : route \in DOMAIN routes}

\* the requests (method, url) that requestHandler hands to each handler
RequestsTo ==
    [handler \in HandlerNames |->
        {r \in Methods \X Urls : HandlerOf[r] = handler}]

\* the ids and the usernames that the urls of its requests give each handler
IdsTo == [handler \in HandlerNames |-> {IdOf(r[2]) : r \in RequestsTo[handler]}]

UsernamesTo ==
    [handler \in HandlerNames |-> {UsernameOf(r[2]) : r \in RequestsTo[handler]}]

\* one disjunct per registered (template, method) pair, one for the pairs
\* that are not registered and one for OPTIONS; requests that differ only in
\* what the handler does not read are one step
Next ==
    \/ RequestsTo["options"] # {} /\ Dispatch(options)
    \/ RequestsTo["none"] # {} /\ Dispatch(noRoute)
    \/ RequestsTo["getOrCreateUser"] # {}
          /\ \E u \in RequestUsernames : Dispatch(getOrCreateUser(u))
    \/ \E username \in UsernamesTo["getUser"] : Dispatch(getUser(username))
    \/ RequestsTo["getArticles"] # {} /\ Dispatch(getArticles)
    \/ RequestsTo["createArticle"] # {}
          /\ \E t \in CreateTexts, l \in CreateTexts, u \in RequestUsernames :
                Dispatch(createArticle(t, l, u))
    \/ \E id \in IdsTo["getArticle"] : Dispatch(getArticle(id))
    \/ \E id \in IdsTo["updateArticle"], p \in BOOLEAN, t \in PatchTexts,
          l \in PatchTexts :
          Dispatch(updateArticle(id, p, t, l))
    \/ \E id \in IdsTo["deleteArticle"] : Dispatch(deleteArticle(id))
    \/ \E id \in IdsTo["upvoteArticle"], u \in RequestUsernames :
          Dispatch(upvoteArticle(id, u))
    \/ \E id \in IdsTo["downvoteArticle"], u \in RequestUsernames :
          Dispatch(downvoteArticle(id, u))
    \/ RequestsTo["createComment"] # {}
          /\ \E b \in CreateTexts, u \in RequestUsernames, a \in ArticleIdInputs :
                Dispatch(createComment(b, u, a))
    \/ \E id \in IdsTo["updateComment"], p \in BOOLEAN, b \in PatchTexts :
          Dispatch(updateComment(id, p, b))
    \/ \E id \in IdsTo["deleteComment"] : Dispatch(deleteComment(id))
    \/ \E id \in IdsTo["upvoteComment"], u \in RequestUsernames :
          Dispatch(upvoteComment(id, u))
    \/ \E id \in IdsTo["downvoteComment"], u \in RequestUsernames :
          Dispatch(downvoteComment(id, u))

Spec == Init /\ [][Next]_vars

\* ---- requestHandler with the request on record ----
Receive(method, url, handler) ==
    /\ ~crashed
    /\ served < MaxRecorded
    /\ served' = served + 1
    /\ Run(handler, url)
    /\ request' = [method |-> method, url |-> url,
                   route |-> RouteOf[url], handler |-> handler]
    /\ UNCHANGED <<votevars, process>>

RouteNext ==
    \E handler \in HandlerNames :
        \E r \in RequestsTo[handler] : Receive(r[1], r[2], handler)

RouteSpec == Init /\ [][RouteNext]_vars

\* ---- the process: start-up, database.yml, request bodies ----
\* for (key in database)
Keys == {"users", "articles", "nextArticleId", "comments", "nextCommentId"}

\* the database object as it is now
database ==
    [users |-> users, articles |-> articles, nextArticleId |-> nextArticleId,
     comments |-> comments, nextCommentId |-> nextCommentId]

\* a database.yml holding data
File(data) == [file |-> TRUE, data |-> data]

\* databases a previous run can have saved: alice alone, alice and one
\* article of hers
SavedUser == [username |-> "alice", articleIds |-> <<>>, commentIds |-> <<>>]
SavedArticle ==
    [id |-> 1, title |-> "a", url |-> "a", username |-> "alice",
     commentIds |-> <<>>, upvotedBy |-> <<>>, downvotedBy |-> <<>>]
SavedDatabases ==
    {[users |-> ("alice" :> SavedUser), articles |-> <<>>, nextArticleId |-> 1,
      comments |-> <<>>, nextCommentId |-> 1],
     [users |-> ("alice" :> [SavedUser EXCEPT !.articleIds = <<1>>]),
      articles |-> <<SavedArticle>>, nextArticleId |-> 2,
      comments |-> <<>>, nextCommentId |-> 1]}

\* what database.yml can hold at start: nothing, or some of the fields of a
\* saved database (every value of these is truthy)
Files ==
    {NoFile} \cup
    {File([key \in present |-> db[key]]) :
        db \in SavedDatabases, present \in (SUBSET Keys) \ {{}}}

\* loadDatabase(): starts readYaml, whose callback logs an error and drops
\* the data; the function has no return statement
loadDatabase(file) == Undefined

\* savedDatabase[key] || database[key]
Merged(savedDatabase, key) ==
    IF key \in DOMAIN savedDatabase THEN savedDatabase[key] ELSE database[key]

\* the module's top level, before server.listen
start ==
    /\ phase = "boot"
    /\ phase' = "listening"
    /\ LET savedDatabase == IF isTestMode THEN Undefined ELSE loadDatabase(disk)
       IN IF Truthy(savedDatabase)
          THEN /\ users' = Merged(savedDatabase, "users")
               /\ articles' = Merged(savedDatabase, "articles")
               /\ nextArticleId' = Merged(savedDatabase, "nextArticleId")
               /\ comments' = Merged(savedDatabase, "comments")
               /\ nextCommentId' = Merged(savedDatabase, "nextCommentId")
          ELSE UNCHANGED store
    /\ UNCHANGED <<response, served, crashed, votevars, request,
                   isTestMode, disk, writes, bodies, order>>

\* the requests the process is sent: routed ones, with and without a body
ServerRequests ==
    {<<"POST", Path(<<"users">>)>>, <<"GET", Path(<<"users", "alice">>)>>,
     <<"POST", Path(<<"articles">>)>>, <<"GET", Path(<<"articles">>)>>}

\* the handler call and what follows it in requestHandler: saveDatabase()
\* outside test mode, which starts a write of the database and returns
Handle(n, method, url) ==
    /\ Request(method, url)
    /\ order' = Append(order, n)
    /\ writes' = IF isTestMode \/ crashed' THEN writes
                 ELSE Append(writes, database')

\* requestHandler for GET and DELETE: the handler runs at once
receiveNoBody(method, url) ==
    /\ phase = "listening" /\ ~crashed
    /\ method \in {"GET", "DELETE"}
    /\ served < MaxArrivals
    /\ served' = served + 1
    /\ Handle(served', method, url)
    /\ UNCHANGED <<votevars, request, phase, isTestMode, disk, bodies>>

\* requestHandler for the other methods: it registers the 'data' and 'end'
\* listeners and returns
receiveBody(method, url) ==
    /\ phase = "listening" /\ ~crashed
    /\ method \notin {"GET", "DELETE"}
    /\ served < MaxArrivals
    /\ served' = served + 1
    /\ bodies' = bodies \cup {[n |-> served', method |-> method, url |-> url]}
    /\ UNCHANGED <<store, response, crashed, votevars, request,
                   phase, isTestMode, disk, writes, order>>

\* the 'end' listener of one request: the body is parsed, the handler runs
end(pending) ==
    /\ ~crashed
    /\ pending \in bodies
    /\ bodies' = bodies \ {pending}
    /\ Handle(pending.n, pending.method, pending.url)
    /\ UNCHANGED <<served, votevars, request, phase, isTestMode, disk>>

\* one write started by saveDatabase reaches database.yml
written(i) ==
    /\ ~crashed
    /\ i \in DOMAIN writes
    /\ disk' = File(writes[i])
    /\ writes' = SubSeq(writes, 1, i - 1) \o SubSeq(writes, i + 1, Len(writes))
    /\ UNCHANGED <<store, response, served, crashed, votevars, request,
                   phase, isTestMode, bodies, order>>

ServerInit ==
    /\ users = <<>>
    /\ articles = <<>>
    /\ nextArticleId = 1
    /\ comments = <<>>
    /\ nextCommentId = 1
    /\ served = 0
    /\ response = StatusOnly(0)
    /\ crashed = FALSE
    /\ item = NoItem
    /\ vlog = NoVote
    /\ request = NoRequest
    /\ phase = "boot"
    /\ isTestMode \in BOOLEAN
    /\ disk \in Files
    /\ writes = <<>>
    /\ bodies = {}
    /\ order = <<>>

ServerNext ==
    \/ start
    \/ \E r \in ServerRequests : receiveNoBody(r[1], r[2])
    \/ \E r \in ServerRequests : receiveBody(r[1], r[2])
    \/ \E pending \in bodies : end(pending)
    \/ \E i \in DOMAIN writes : written(i)

ServerSpec == ServerInit /\ [][ServerNext]_vars

\* ---- the vote engine on its own: any entity, any sequence of votes ----
\* usernames that pass the handlers' database.users[username] check
Voters == Names \cup ObjectPrototypeKeys

SeqsUpTo(S, n) == UNION {[1..k -> S] : k \in 0..n}

NoDuplicates(arr) == \A i, j \in DOMAIN arr : i # j => arr[i] # arr[j]

\* the vote lists an entity can hold: built by upvote/downvote from [], []
VoteItems ==
    {it \in [upvotedBy : SeqsUpTo(Voters, MaxVoteLen),
             downvotedBy : SeqsUpTo(Voters, MaxVoteLen)] :
        /\ NoDuplicates(it.upvotedBy) /\ NoDuplicates(it.downvotedBy)
        /\ Range(it.upvotedBy) \cap Range(it.downvotedBy) = {}}

VoteInit ==
    /\ users = <<>>
    /\ articles = <<>>
    /\ nextArticleId = 1
    /\ comments = <<>>
    /\ nextCommentId = 1
    /\ response = StatusOnly(0)
    /\ served = 0
    /\ crashed = FALSE
    /\ item \in VoteItems
    /\ vlog = NoVote
    /\ request = NoRequest
    /\ TestMode

VoteUp(username) ==
    /\ item' = upvote(item, username)
    /\ vlog' = [op |-> "upvote", username |-> username, before |-> item,
                prevOp |-> vlog.op, prevUsername |-> vlog.username]
    /\ UNCHANGED <<store, response, served, crashed, request, process>>

VoteDown(username) ==
    /\ item' = downvote(item, username)
    /\ vlog' = [op |-> "downvote", username |-> username, before |-> item,
                prevOp |-> vlog.op, prevUsername |-> vlog.username]
    /\ UNCHANGED <<store, response, served, crashed, request, process>>

VoteNext ==
    \/ \E u \in Voters : VoteUp(u)
    \/ \E u \in Voters : VoteDown(u)

VoteSpec == VoteInit /\ [][VoteNext]_vars

\* ---- properties ----
LiveIds(slots) == {id \in DOMAIN slots : Truthy(slots[id])}

\* the ids of the live comments that belong to article id
CommentsOf(cms, id) == {c \in LiveIds(cms) : cms[c].articleId = id}

\* C1: every id in every user's commentIds refers to a live comment whose
\* username is that user.
C1_UserCommentIdsLive ==
    \A u \in DOMAIN users : \A i \in DOMAIN users[u].commentIds :
        LET c == SlotGet(comments, users[u].commentIds[i])
        IN Truthy(c) /\ c.username = u

\* C2: a successful deleteArticle(A) makes every comment of A non-live and
\* removes exactly those comments' ids from the users' commentIds.
C2_DeleteArticleCascades ==
    [][\A id \in ArticleIdInputs :
          (deleteArticle(id) /\ response'.status = 204) =>
              /\ \A c \in CommentsOf(comments, id) : comments'[c] = Null
              /\ \A u \in DOMAIN users :
                    users'[u].commentIds =
                        SelectSeq(users[u].commentIds,
                                  LAMBDA c : c \notin CommentsOf(comments, id))]_vars

\* C3: every id in the commentIds of every live article refers to a live
\* comment whose articleId is that article's id.
C3_ArticleCommentIdsLive ==
    \A a \in LiveIds(articles) : \A i \in DOMAIN articles[a].commentIds :
        LET c == SlotGet(comments, articles[a].commentIds[i])
        IN Truthy(c) /\ c.articleId = articles[a].id

\* a live article lists a comment after another comment has been deleted
C3_Witness ==
    /\ \E a \in LiveIds(articles) : articles[a].commentIds # <<>>
    /\ \E c \in DOMAIN comments : comments[c] = Null

\* C4: every id in every user's articleIds refers to a live article whose
\* username is that user.
C4_UserArticleIdsLive ==
    \A u \in DOMAIN users : \A i \in DOMAIN users[u].articleIds :
        LET a == SlotGet(articles, users[u].articleIds[i])
        IN Truthy(a) /\ a.username = u

\* a user still lists an article after one of the articles has been deleted
C4_Witness ==
    /\ \E u \in DOMAIN users : users[u].articleIds # <<>>
    /\ \E a \in DOMAIN articles : articles[a] = Null

VotesDisjoint(e) ==
    /\ Range(e.upvotedBy) \cap Range(e.downvotedBy) = {}
    /\ NoDuplicates(e.upvotedBy)
    /\ NoDuplicates(e.downvotedBy)

\* C5: for every live article and every live comment, upvotedBy and
\* downvotedBy share no username and neither holds a username twice.
C5_VotesExclusive ==
    /\ \A a \in LiveIds(articles) : VotesDisjoint(articles[a])
    /\ \A c \in LiveIds(comments) : VotesDisjoint(comments[c])

\* an article and a comment each hold an upvote and a downvote
C5_Witness ==
    /\ \E a \in LiveIds(articles) :
          articles[a].upvotedBy # <<>> /\ articles[a].downvotedBy # <<>>
    /\ \E c \in LiveIds(comments) :
          comments[c].upvotedBy # <<>> \/ comments[c].downvotedBy # <<>>

\* the ids assigned so far are below the counter, and a live record sits
\* under its own id
IdsBelow(slots, next) ==
    \A id \in DOMAIN slots : id < next /\ (Truthy(slots[id]) => slots[id].id = id)

\* ids are assigned from the counter and a slot, once assigned, is never
\* assigned a new record
IdsFresh(slots, slotsAfter, next, nextAfter) ==
    /\ nextAfter >= next
    /\ \A id \in DOMAIN slotsAfter \ DOMAIN slots : id = next /\ nextAfter = next + 1
    /\ \A id \in DOMAIN slots :
          /\ id \in DOMAIN slotsAfter
          /\ Truthy(slotsAfter[id]) => Truthy(slots[id])
    /\ nextAfter # next => DOMAIN slotsAfter # DOMAIN slots

\* C6: nextArticleId and nextCommentId never decrease, a create that answers
\* 400 does not advance them, every id is handed out once and the counters
\* stay above every id assigned so far, deleted ones included.
C6_IdsMonotonic ==
    /\ [](IdsBelow(articles, nextArticleId) /\ IdsBelow(comments, nextCommentId))
    /\ [][/\ IdsFresh(articles, articles', nextArticleId, nextArticleId')
          /\ IdsFresh(comments, comments', nextCommentId, nextCommentId')
          /\ response'.status = 400 =>
                UNCHANGED <<nextArticleId, nextCommentId>>]_vars

\* ids 1 of both kinds are deleted, article 2 lives above the deleted id 1,
\* and the last request was refused
C6_Witness ==
    /\ nextArticleId = 3 /\ articles[1] = Null /\ Truthy(articles[2])
    /\ nextCommentId = 2 /\ comments[1] = Null
    /\ response.status = 400

\* C7: upvote and downvote are idempotent, and after an upvote followed by a
\* downvote by the same username (or the reverse) the username is in exactly
\* the list of the last vote.
C7_VoteIdempotent ==
    /\ (vlog.op # "none" /\ vlog.prevOp = vlog.op
            /\ vlog.prevUsername = vlog.username) => item = vlog.before
    /\ (vlog.op = "upvote" /\ vlog.prevOp = "downvote"
            /\ vlog.prevUsername = vlog.username) =>
          /\ Includes(item.upvotedBy, vlog.username)
          /\ ~Includes(item.downvotedBy, vlog.username)
    /\ (vlog.op = "downvote" /\ vlog.prevOp = "upvote"
            /\ vlog.prevUsername = vlog.username) =>
          /\ Includes(item.downvotedBy, vlog.username)
          /\ ~Includes(item.upvotedBy, vlog.username)

\* the same username upvoted twice in a row an entity that other users voted on
C7_Witness ==
    /\ vlog.op = "upvote" /\ vlog.prevOp = "upvote"
    /\ vlog.prevUsername = vlog.username
    /\ Len(item.upvotedBy) > 1 /\ item.downvotedBy # <<>>

\* C8: reading an article leaves the store unchanged.
C8_GetArticleReadOnly ==
    [][\A id \in ArticleIdInputs : getArticle(id) => UNCHANGED store]_vars

\* the values of a response body are live: no null placeholder, and every
\* comment an article of the body embeds is a live comment
BodyLive(r) ==
    /\ \A i \in DOMAIN r.articles :
          /\ Truthy(r.articles[i])
          /\ "comments" \in DOMAIN r.articles[i] =>
                \A j \in DOMAIN r.articles[i].comments :
                    /\ Truthy(r.articles[i].comments[j])
                    /\ Truthy(SlotGet(comments, r.articles[i].comments[j].ref))
    /\ \A i \in DOMAIN r.comments : Truthy(r.comments[i])

\* C9: no response body contains a deleted comment, a deleted article or a
\* null placeholder.
C9_ReadsExcludeDeleted == BodyLive(response)

\* C10: every request is answered with an envelope whose status is one of
\* 200, 201, 204, 400, 404: no handler throws.
C10_HandlersComplete ==
    served > 0 => ~crashed /\ response.status \in {200, 201, 204, 400, 404}

\* the (template, method) pairs of the route table
RegisteredPairs ==
    UNION {{<<route, method>> : method \in DOMAIN routes[route]} :
              route \in DOMAIN routes}

\* C11: a request that reaches the route lookup (any method but OPTIONS, which
\* is answered before it) and whose (resolved template, method) pair is not
\* in the route table gets status 400 and no body; no handler runs and the
\* store is unchanged.
C11_UnroutedIs400 ==
    [][(/\ request'.method \notin {"", "OPTIONS"}
        /\ served' = served + 1
        /\ <<request'.route, request'.method>> \notin RegisteredPairs) =>
           /\ response' = StatusOnly(400)
           /\ UNCHANGED <<store, crashed>>]_vars

\* DELETE /users/alice, a registered template with another method, was
\* answered 400 while alice exists
C11_Witness ==
    /\ request.method = "DELETE" /\ request.url = Path(<<"users", "alice">>)
    /\ request.route = "/users/:username"
    /\ "alice" \in DOMAIN users
    /\ response = StatusOnly(400)

\* the i-th path segment as the template prints it
Segment(url, i) ==
    LET segs == SelectSeq(url, LAMBDA x : x # "")
    IN IF i <= Len(segs) THEN segs[i] ELSE "undefined"

SegmentCount(url) == Len(SelectSeq(url, LAMBDA x : x # ""))

\* C12: the template of a path follows the four rules in order: one segment,
\* /{segment0}; a third segment upvote or downvote, /{segment0}/:id/{segment2};
\* a first segment users, /users/:username; otherwise /{segment0}/:id; every
\* path has a template, with no segment or more than three as well.
C12_ResolveRules ==
    request # NoRequest =>
        request.route =
            CASE SegmentCount(request.url) = 1 -> "/" \o Segment(request.url, 1)
              [] SegmentCount(request.url) # 1
                    /\ Segment(request.url, 3) \in {"upvote", "downvote"} ->
                        "/" \o Segment(request.url, 1) \o "/:id/"
                            \o Segment(request.url, 3)
              [] SegmentCount(request.url) # 1
                    /\ Segment(request.url, 3) \notin {"upvote", "downvote"}
                    /\ Segment(request.url, 1) = "users" -> "/users/:username"
              [] OTHER -> "/" \o Segment(request.url, 1) \o "/:id"

\* a path under users that ends in upvote resolved to the vote template
C12_Witness ==
    /\ request.url = Path(<<"users", "alice", "upvote">>)
    /\ request.route = "/users/:id/upvote"

\* the path segment spells the id of an article that is live
NamesLiveArticle(segment, slots) ==
    \E id \in LiveIds(slots) : ToString(id) = segment

\* the path segment spells a number other than 0
NonZeroNumber(segment) == \E n \in 1..MaxDigits : ToString(n) = segment

\* C13: GET /articles/:id is answered 200 exactly when the id is that of a
\* live article, 404 when it is a non-zero number that is not, 400 when it is
\* not a number or is 0; a deleted id stays deleted.
C13_GetArticleStatus ==
    [][/\ (/\ served' = served + 1
           /\ request'.method = "GET"
           /\ request'.route = "/articles/:id") =>
              response'.status =
                  IF NamesLiveArticle(Segment(request'.url, 2), articles) THEN 200
                  ELSE IF NonZeroNumber(Segment(request'.url, 2)) THEN 404
                  ELSE 400
       /\ \A id \in DOMAIN articles :
              articles[id] = Null => SlotGet(articles', id) = Null]_vars

\* GET /articles/1 was answered 404 after article 1 was deleted
C13_Witness ==
    /\ request.method = "GET" /\ request.url = Path(<<"articles", "1">>)
    /\ SlotGet(articles, 1) = Null
    /\ response = StatusOnly(404)

\* C14: DELETE /articles/:id is answered 204 exactly when the id is that of a
\* live article, which it tombstones; otherwise it is answered 400 and the
\* store is unchanged.
C14_DeleteArticleStatus ==
    [][(/\ served' = served + 1
        /\ request'.method = "DELETE"
        /\ request'.route = "/articles/:id") =>
           IF NamesLiveArticle(Segment(request'.url, 2), articles)
           THEN /\ response' = StatusOnly(204)
                /\ ~NamesLiveArticle(Segment(request'.url, 2), articles')
           ELSE /\ response' = StatusOnly(400)
                /\ UNCHANGED store]_vars

\* DELETE /articles/1 was answered 400 after article 1 was deleted
C14_Witness ==
    /\ request.method = "DELETE" /\ request.url = Path(<<"articles", "1">>)
    /\ SlotGet(articles, 1) = Null
    /\ response = StatusOnly(400)

\* C17: POST /users with a non-empty username of no user answers 201 and
\* creates the user with empty id lists; with the username of a user it
\* answers 200 with that record and changes nothing; with no username it
\* answers 400 and creates nothing; a user, once created, stays.
C17_GetOrCreateUser ==
    [][/\ \A u \in RequestUsernames : getOrCreateUser(u) =>
             IF u = "" THEN response' = StatusOnly(400) /\ UNCHANGED store
             ELSE IF u \in DOMAIN users
             THEN /\ response' = Resp(200, <<users[u]>>, <<>>, <<>>)
                  /\ UNCHANGED store
             ELSE /\ response'.status = 201
                  /\ DOMAIN users' = DOMAIN users \cup {u}
                  /\ users'[u] = [username |-> u, articleIds |-> <<>>,
                                  commentIds |-> <<>>]
                  /\ \A v \in DOMAIN users : users'[v] = users[v]
       /\ \A v \in DOMAIN users : v \in DOMAIN users']_vars

\* every field of the record but those named is as before
SameBut(before, after, fields) ==
    /\ DOMAIN after = DOMAIN before
    /\ \A f \in DOMAIN before \ fields : after[f] = before[f]

\* every slot but id is as before
OthersSame(slots, slotsAfter, id) ==
    /\ DOMAIN slotsAfter = DOMAIN slots
    /\ \A other \in DOMAIN slots \ {id} : slotsAfter[other] = slots[other]

\* C18: a successful updateArticle overwrites title and url only where the
\* patch has a non-empty value and changes nothing else in the store;
\* updateComment does the same for body. (A successful update answers 200
\* with the one record it updated.)
C18_UpdateFrame ==
    [][response'.status = 200 =>
        /\ Len(response'.articles) = 1 =>
              \A id \in ArticleIdInputs, p \in BOOLEAN, t \in PatchTexts,
                 l \in PatchTexts :
                 updateArticle(id, p, t, l) =>
                     /\ articles'[id].title = IF t # "" THEN t ELSE articles[id].title
                     /\ articles'[id].url = IF l # "" THEN l ELSE articles[id].url
                     /\ SameBut(articles[id], articles'[id], {"title", "url"})
                     /\ OthersSame(articles, articles', id)
                     /\ UNCHANGED <<users, comments, nextArticleId, nextCommentId>>
        /\ Len(response'.comments) = 1 =>
              \A id \in CommentIdInputs, p \in BOOLEAN, b \in PatchTexts :
                 updateComment(id, p, b) =>
                     /\ comments'[id].body = IF b # "" THEN b ELSE comments[id].body
                     /\ SameBut(comments[id], comments'[id], {"body"})
                     /\ OthersSame(comments, comments', id)
                     /\ UNCHANGED <<users, articles, nextArticleId, nextCommentId>>]_vars

\* an update patched the title of an article that holds a comment and a
\* vote, and kept its url
C18_Witness ==
    /\ response.status = 200
    /\ \E a \in LiveIds(articles) :
          /\ response.articles = <<articles[a]>>
          /\ articles[a].title = "b" /\ articles[a].url = "a"
          /\ articles[a].commentIds # <<>>
          /\ articles[a].upvotedBy # <<>>

\* a vote on a slot: 200 and nothing but the two vote lists of the entity
\* change when the entity is live and the username is a user's, else 400 and
\* the store is unchanged
VoteOutcome(slots, slotsAfter, id, u, others) ==
    IF Truthy(SlotGet(slots, id)) /\ u \in DOMAIN users
    THEN /\ response'.status = 200
         /\ SameBut(slots[id], slotsAfter[id], {"upvotedBy", "downvotedBy"})
         /\ OthersSame(slots, slotsAfter, id)
         /\ others
    ELSE response' = StatusOnly(400) /\ UNCHANGED store

VoteUsersExist(slots) ==
    \A id \in LiveIds(slots) :
        Range(slots[id].upvotedBy) \cup Range(slots[id].downvotedBy)
            \subseteq DOMAIN users

\* C19: a vote on an article or a comment is answered 200 exactly when the id
\* is that of a live entity and the username that of an existing user, else
\* 400 with the store unchanged; every username in a vote list of a live
\* entity is an existing user and a vote changes only the entity's vote lists.
C19_VoteStatus ==
    /\ [](VoteUsersExist(articles) /\ VoteUsersExist(comments))
    /\ [][/\ \A id \in ArticleIdInputs, u \in RequestUsernames :
                (upvoteArticle(id, u) \/ downvoteArticle(id, u)) =>
                    VoteOutcome(articles, articles', id, u,
                        UNCHANGED <<users, comments, nextArticleId, nextCommentId>>)
          /\ \A id \in CommentIdInputs, u \in RequestUsernames :
                (upvoteComment(id, u) \/ downvoteComment(id, u)) =>
                    VoteOutcome(comments, comments', id, u,
                        UNCHANGED <<users, articles, nextArticleId, nextCommentId>>)]_vars

Occurrences(arr, x) == Cardinality({i \in DOMAIN arr : arr[i] = x})

\* C20: while the server answers, every live comment's id is exactly once in
\* its author's commentIds and exactly once in its article's commentIds, and
\* its article is live.
C20_LiveCommentsListed ==
    ~crashed =>
        \A c \in LiveIds(comments) :
            /\ IsUser(UsersGet(users, comments[c].username))
            /\ Occurrences(users[comments[c].username].commentIds, c) = 1
            /\ Truthy(SlotGet(articles, comments[c].articleId))
            /\ Occurrences(articles[comments[c].articleId].commentIds, c) = 1

\* ---- C15 ----
\* the handlers have run for the first requests that arrived, in the order
\* they arrived
InArrivalOrder == order = [i \in 1..Len(order) |-> i]

\* C15: requests are executed one at a time and to completion, flush
\* included: handlers run in arrival order, and at most one write to
\* database.yml is in flight
C15_Serialized == InArrivalOrder /\ Len(writes) <= 1

\* ---- C16 ----
\* C16: once the process has started outside test mode, and before any
\* request, every field present in database.yml is the store's value of it
C16_SnapshotMerged ==
    (phase = "listening" /\ ~isTestMode /\ served = 0 /\ disk # NoFile)
        => \A key \in DOMAIN disk.data : database[key] = disk.data[key]

============================================================================
